---- MODULE Spec2Model ----
(***************************************************************************)
(* Model of dashboard.py: the CKAN monitoring dashboard's API wrappers,    *)
(* the paginated bulk fetcher with per-page retries, the JSON disk cache   *)
(* with manual refresh, and the parallel organization-detail fetcher.      *)
(*                                                                         *)
(* Spec       one dashboard session: script runs, each calling             *)
(*            get_datasets, get_organizations and                          *)
(*            search_datasets_paginated, then the empty-list stop, the     *)
(*            projection, the rendering and, step by step, the call of     *)
(*            get_all_org_details_parallel                                 *)
(* SpecPage   the same runs, following the age of the memoized entries     *)
(* SpecFetch  direct calls of _search_datasets_paginated_reliable;         *)
(*            SpecFetchLive adds fairness of the fetcher's steps           *)
(* SpecProj   the projection of dataset records and its aggregates         *)
(* SpecTwo    search_datasets_paginated in two concurrent sessions that    *)
(*            share dataset_cache.json and st.cache_data                   *)
(* SpecOrg    calls of get_all_org_details_parallel                        *)
(* SpecApi    calls of the five memoized API wrappers                      *)
(***************************************************************************)
EXTENDS Integers, Sequences, FiniteSets, TLC

VARIABLES
    pc,             \* position of the script run
    refresh_cache,  \* st.session_state.refresh_cache
    cache_file,     \* dataset_cache.json: [exists, content (JSON tokens)]
    memo,           \* st.cache_data entries: key -> [has, val]
    limit,          \* argument of search_datasets_paginated
    total_count,    \* local of _search_datasets_paginated_reliable
    total_pages,
    page,
    attempt,
    success,
    all_results,
    dataset_data,   \* value returned by search_datasets_paginated
    datasets,       \* value of get_datasets() in the script
    orgs,           \* value of get_organizations() in the script
    requests,       \* log of the page-search requests of the running fetch
    report,         \* st.error failure report of the current call
    http_calls,     \* upstream HTTP requests issued by the fetch in progress
    source,         \* where the current call's return value came from
    fetch_started,  \* the current call invoked the bulk fetcher
    in_flight,      \* start offsets of the page-search requests not yet answered
    progress,       \* log of the progress reports of the running fetch
    raised,         \* exception that ended the script run, or "none"
    last_written,   \* list handed to the last json.dump that completed
    cache_state,    \* provenance of the cache file's content
    load_log,       \* the current call: flag and cache at entry, write done
    prev_call,      \* the same for the session's previous call
    org_pc,         \* position inside get_all_org_details_parallel
    org_ids,
    futures,        \* the submitted fetch_detail calls, in submission order
    org_details,
    api_ret,        \* outcome of the last API wrapper call
    stop_report,    \* the "No datasets returned" error of line 168 was shown
    steps,          \* downstream steps (after line 169) executed in this run
    df_datasets,    \* rows of the projection, lines 170-178
    org_dataset_count,  \* line 181
    total_views,    \* line 182
    all_orgs,       \* value of get_all_org_details_parallel(), line 267
    stale,          \* memoized entries older than the pending refresh request
    stale_used,     \* values of this run that were served from such entries
    sess,           \* two sessions loading concurrently: their positions
    fs,             \* the directory entry and the inodes of the cache file
    last_write      \* the session whose write to the cache came last, and
                    \* whether some open or write of the cache failed

fetchVars == <<limit, total_count, total_pages, page, attempt, success,
               all_results, requests, report, http_calls, source,
               fetch_started, in_flight, progress, load_log>>
scriptVars == <<refresh_cache, cache_file, memo, dataset_data, datasets,
                orgs, raised, last_written, cache_state, prev_call>>
orgVars == <<org_pc, org_ids, futures, org_details>>
runVars == <<stop_report, steps, df_datasets, org_dataset_count, total_views,
             all_orgs>>
tailVars == <<runVars, stale, stale_used>>
twoVars == <<sess, fs, last_write>>
vars == <<pc, scriptVars, fetchVars, orgVars, api_ret, tailVars, twoVars>>

(***************************************************************************)
(* Program constants                                                       *)
(***************************************************************************)
rows_per_page == 1000
retries == 3

(***************************************************************************)
(* Bounds and input domains                                                *)
(***************************************************************************)
\* a served page holds at most this many records (stands for up to 1000)
MaxPageItems == 2

DatasetIds == {"d1", "d2"}
OrgIds == {"a", "b", "c"}

\* upstream values of result.count
Counts == {0, 1000, 1001}

\* the sequences over S of length at most n
SeqUpTo(S, n) == UNION {[1..k -> S] : k \in 0..n}

\* result.results of one page
PageResults == SeqUpTo(DatasetIds, MaxPageItems)

\* the pages served within the script runs: the catalogue's records in
\* order, "d1", "d2", "d1", ...
ScriptPageResults ==
    {r \in PageResults :
        \A i \in DOMAIN r : r[i] = IF i % 2 = 1 THEN "d1" ELSE "d2"}

\* result of package_list, of organization_list
PackageLists == {<<"d1", "d2">>}
OrgLists == {<<"a">>}

(***************************************************************************)
(* HTTP: what one requests.get followed by r.json()["result"] can do       *)
(***************************************************************************)
\* "ok": status 200 and a JSON body with a result field
\* "http_error": any status other than 200
\* "timeout", "connection_error": requests.get raises
\* "bad_json": status 200, r.json() or the ["result"] lookup raises
HttpKinds == {"ok", "http_error", "timeout", "connection_error", "bad_json"}

\* the response to one GET: how it ended and, for "ok", the result field
Response(kind, result) == [kind |-> kind, result |-> result]

\* outcome of a wrapper call: a returned value or a raised exception
Returned(v) == [raised |-> FALSE, exc |-> "none", value |-> v]
Raised(kind, v) == [raised |-> TRUE, exc |-> kind, value |-> v]

\* Python's None
None == [none |-> TRUE]

(***************************************************************************)
(* API wrappers (dashboard.py 28-63). Each does requests.get, returns      *)
(* r.json()["result"] on status 200 and its neutral value otherwise; none  *)
(* of them has a try block, so whatever requests.get or r.json() raises    *)
(* leaves the wrapper.                                                     *)
(***************************************************************************)
ApiWrapper(resp, neutral) ==
    IF resp.kind \in {"timeout", "connection_error"}
    THEN Raised(resp.kind, neutral)            \* requests.get raises
    ELSE IF resp.kind = "http_error"
    THEN Returned(neutral)                     \* status_code # 200
    ELSE IF resp.kind = "bad_json"
    THEN Raised(resp.kind, neutral)            \* r.json()["result"] raises
    ELSE Returned(resp.result)

get_organizations(resp) == ApiWrapper(resp, <<>>)
get_datasets(resp) == ApiWrapper(resp, <<>>)
get_dataset_detail(resp) == ApiWrapper(resp, None)
get_org_detail(resp) == ApiWrapper(resp, None)
get_dataset_count(resp) == ApiWrapper(resp, 0)

(***************************************************************************)
(* st.cache_data: one entry per function and argument                      *)
(***************************************************************************)
MemoKeys ==
    {<<"get_organizations", "">>, <<"get_datasets", "">>,
     <<"get_dataset_count", "">>, <<"get_all_org_details_parallel", "">>}
    \cup {<<"get_dataset_detail", d>> : d \in DatasetIds}
    \cup {<<"get_org_detail", o>> : o \in OrgIds}

NoEntry == [has |-> FALSE]
Entry(v) == [has |-> TRUE, val |-> v]

\* st.cache_data.clear()
ClearedMemo == [k \in MemoKeys |-> NoEntry]

\* a memoized call that ran the function: a normal return is stored, an
\* exception is not
Memoize(m, key, ret) ==
    IF ret.raised THEN m ELSE [m EXCEPT ![key] = Entry(ret.value)]

(***************************************************************************)
(* json.dump / json.load of a list of dataset records, as JSON tokens      *)
(***************************************************************************)
RECURSIVE DumpItems(_)
DumpItems(l) ==
    IF l = <<>> THEN <<>>
    ELSE IF Len(l) = 1 THEN <<l[1]>>
    ELSE <<l[1], ",">> \o DumpItems(Tail(l))

\* the separators are left out
JsonDumpNoSeparators(l) == <<"[">> \o l \o <<"]">>

\* json.dump(data, f)
JsonDump(l) == <<"[">> \o DumpItems(l) \o <<"]">>

\* "NUL" stands for the zero bytes of a hole in the file
IsItemToken(t) == t \notin {"[", "]", ",", "NUL"}

\* the decoder did not find a JSON value
NoValue == [ok |-> FALSE, value |-> <<>>, next |-> 0]

\* the JSON value that starts at token i: an item, or a list of values (of
\* any depth); next is the position after it
RECURSIVE ParseValue(_, _)
RECURSIVE ParseElements(_, _, _)
ParseValue(toks, i) ==
    IF i > Len(toks) THEN NoValue
    ELSE IF IsItemToken(toks[i])
    THEN [ok |-> TRUE, value |-> toks[i], next |-> i + 1]
    ELSE IF toks[i] # "[" THEN NoValue
    ELSE IF i + 1 <= Len(toks) /\ toks[i + 1] = "]"
    THEN [ok |-> TRUE, value |-> <<>>, next |-> i + 2]
    ELSE ParseElements(toks, i + 1, <<>>)

\* the elements of a list from token i on, acc holding the ones before
ParseElements(toks, i, acc) ==
    LET v == ParseValue(toks, i) IN
    IF ~v.ok \/ v.next > Len(toks) THEN NoValue
    ELSE IF toks[v.next] = "]"
    THEN [ok |-> TRUE, value |-> Append(acc, v.value), next |-> v.next + 1]
    ELSE IF toks[v.next] = ","
    THEN ParseElements(toks, v.next + 1, Append(acc, v.value))
    ELSE NoValue

\* json.load(f): the parsed document, whatever JSON value it is, or a
\* failure (JSONDecodeError) when the tokens are not exactly one value
JsonLoad(toks) ==
    LET v == ParseValue(toks, 1) IN
    IF v.ok /\ v.next = Len(toks) + 1
    THEN [ok |-> TRUE, value |-> v.value]
    ELSE [ok |-> FALSE, value |-> <<>>]

\* the proper prefixes of a file's content (a truncated or torn file)
ProperPrefixes(toks) == {SubSeq(toks, 1, k) : k \in 0..(Len(toks) - 1)}

NoFile == [exists |-> FALSE, content |-> <<>>]
File(toks) == [exists |-> TRUE, content |-> toks]

(***************************************************************************)
(* _search_datasets_paginated_reliable (dashboard.py 64-102)               *)
(***************************************************************************)
Min(a, b) == IF a < b THEN a ELSE b

\* floor instead of ceiling
TotalPagesFloorPlusOne(lim, total) == Min(lim, total) \div rows_per_page + 1

\* line 70
TotalPages(lim, total) == (Min(lim, total) + rows_per_page - 1) \div rows_per_page

\* the offsets start at the second page
OffsetOneBased(p) == (p + 1) * rows_per_page

\* line 76
Offset(p) == p * rows_per_page

\* lines 81-92: the attempt succeeds when the status is 200 and the body
\* parses; every exception is caught by the except clause
AttemptOk(resp) == resp.kind = "ok"

\* the page is put in front of the accumulator
ExtendFront(acc, results) == results \o acc

\* line 86
Extend(acc, results) == acc \o results

\* the retry loop allows one attempt more
AfterAttemptOneMore(ok, att) ==
    IF ok THEN "break"
    ELSE IF att < retries + 1 THEN "retry"
    ELSE "exhausted"

\* lines 80, 87-88: what the retry loop does after an attempt
AfterAttempt(ok, att) ==
    IF ok THEN "break"
    ELSE IF att < retries THEN "retry"
    ELSE "exhausted"

\* line 94: the fraction (page + 1) / total_pages, reported after `sent`
\* page-search requests
ProgressReport(p, pages, sent) == [num |-> p + 1, den |-> pages, at |-> sent]

NoReport == [page |-> 0, attempts |-> 0]
\* line 97
FailureReport(p) == [page |-> p + 1, attempts |-> retries]

(***************************************************************************)
(* search_datasets_paginated (dashboard.py 104-127)                        *)
(***************************************************************************)
\* the refresh branch forgets to remove the file
AfterRefreshFileKept(flag, file) == file

\* lines 107-110: the cache file after the refresh branch
AfterRefreshFile(flag, file) == IF flag THEN NoFile ELSE file

\* lines 107, 111: the memoized entries after the refresh branch
AfterRefreshMemo(flag, m) == IF flag THEN ClearedMemo ELSE m

\* lines 113-116: the file exists and json.load returns
CacheHit(file) == file.exists /\ JsonLoad(file.content).ok

\* lines 121-125: the file after the write attempt. "ok": json.dump
\* completes; "open_error": open raises, nothing is touched; "dump_error":
\* the file was opened (truncated) and the write stopped after `torn`
WriteOutcomes == {"ok", "open_error", "dump_error"}

\* nothing reaches the file
AfterWriteNothing(file, data, outcome, torn) == file

AfterWrite(file, data, outcome, torn) ==
    IF outcome = "ok" THEN File(JsonDump(data))
    ELSE IF outcome = "dump_error" THEN File(torn)
    ELSE file

(***************************************************************************)
(* Projection and aggregation (dashboard.py 170-182)                       *)
(***************************************************************************)
\* the placeholder of lines 173 and 176 (an em dash)
EmDash == "--"

\* {}
EmptyDict == <<>>

\* d.get(k, default)
Get(d, k, default) == IF k \in DOMAIN d THEN d[k] ELSE default

\* dataset records as package_search returns them
MinistryA == [title |-> "Ministry A", name |-> "min-a"]
MinistryB == [title |-> "Ministry B", name |-> "min-b"]
RecA1 == [title |-> "Dataset 1", name |-> "d1", organization |-> MinistryA,
          resources |-> <<"csv", "pdf">>, metadata_modified |-> "2024-01-01",
          tracking_summary |-> [total |-> 5]]
RecA2 == [title |-> "Dataset 3", name |-> "d3", organization |-> MinistryA,
          resources |-> <<"csv">>, tracking_summary |-> [total |-> 2]]
RecB == [title |-> "Dataset 4", name |-> "d4", organization |-> MinistryB,
         metadata_modified |-> "2024-02-02"]
RecNoOrg == [title |-> "Dataset 2", name |-> "d2", resources |-> <<"xlsx">>,
             tracking_summary |-> [total |-> 1]]
RecOrgNoTitle == [title |-> "Dataset 5", name |-> "d5",
                  organization |-> [name |-> "min-c"]]
\* records with a null where the projection expects a dict or a list
RecOrgNull == [title |-> "Dataset 6", name |-> "d6", organization |-> None]
RecTrackingNull == [title |-> "Dataset 8", name |-> "d8",
                    tracking_summary |-> None]
RecordKinds == {RecA1, RecA2, RecB, RecNoOrg, RecOrgNoTitle,
                RecOrgNull, RecTrackingNull}

\* the record behind each identifier of the session model
Catalog(d) == IF d = "d1" THEN RecA1 ELSE RecNoOrg
Records(ids) == [i \in DOMAIN ids |-> Catalog(ids[i])]

\* what the expressions of lines 173-177 raise for one record, in the order
\* they are evaluated: None has no get (lines 173 and 177); resources is
\* taken to be a list whenever it is present
RowException(d) ==
    IF Get(d, "organization", EmptyDict) = None THEN "AttributeError"
    ELSE IF Get(d, "tracking_summary", EmptyDict) = None THEN "AttributeError"
    ELSE "none"

\* lines 170-178: one row, or the exception
Row(d) ==
    IF RowException(d) # "none" THEN Raised(RowException(d), None)
    ELSE Returned(
    [title |-> Get(d, "title", None),
     name |-> Get(d, "name", None),
     organization |-> Get(Get(d, "organization", EmptyDict), "title", EmDash),
     org_id |-> Get(Get(d, "organization", EmptyDict), "name", "unknown"),
     resources |-> Len(Get(d, "resources", <<>>)),
     last_modified |-> Get(d, "metadata_modified", EmDash),
     views |-> Get(Get(d, "tracking_summary", EmptyDict), "total", 0)])

\* lines 170-178: df_datasets, or the exception of the first record that
\* raises
Projection(recs) ==
    LET rows == [i \in DOMAIN recs |-> Row(recs[i])]
        bad == {i \in DOMAIN recs : rows[i].raised}
    IN  IF bad # {}
        THEN Raised(rows[CHOOSE i \in bad : \A j \in bad : i <= j].exc, <<>>)
        ELSE Returned([i \in DOMAIN recs |-> rows[i].value])

\* df[c]
Column(df, c) == [i \in DOMAIN df |-> df[i][c]]

\* line 181: .value_counts().to_dict()
ValueCounts(col) ==
    [v \in {col[i] : i \in DOMAIN col} |->
        Cardinality({i \in DOMAIN col : col[i] = v})]

\* line 182: .sum()
RECURSIVE SumOf(_)
SumOf(col) == IF col = <<>> THEN 0 ELSE Head(col) + SumOf(Tail(col))

(***************************************************************************)
(* Two sessions on one cache file: the file as a directory entry and       *)
(* inodes (an open file stays usable after os.remove took its name away)   *)
(***************************************************************************)
Sessions == {1, 2}
IdleSession == [pc |-> "idle", refresh |-> FALSE, total_count |-> 0,
                data |-> <<>>, ret |-> <<>>, handle |-> 0, pos |-> 0,
                exc |-> "none"]
Inodes == 1..3
FreeInode == [live |-> FALSE, content |-> <<>>]
NoWrite == [by |-> 0, data |-> <<>>, failed |-> FALSE]

(***************************************************************************)
(* Responses the upstream can give                                         *)
(***************************************************************************)
Failures(dummy) == {Response(k, dummy) : k \in HttpKinds \ {"ok"}}
PageResponses == {Response("ok", r) : r \in PageResults} \cup Failures(<<>>)

\* the answers to the requests of the script runs: a 200 with one of the
\* results of the domain, a status other than 200, or one of the exceptions
\* of requests.get and r.json()
PackageListResponses ==
    {Response("ok", l) : l \in PackageLists} \cup Failures(<<>>)
OrgListResponses ==
    {Response("ok", l) : l \in OrgLists} \cup Failures(<<>>)
CountResponses == {Response("ok", c) : c \in Counts} \cup Failures(0)
ScriptPageResponses ==
    {Response("ok", r) : r \in ScriptPageResults} \cup Failures(<<>>)

(***************************************************************************)
(* Organization records and the fallback of get_all_org_details_parallel   *)
(* (dashboard.py 134-154)                                                  *)
(***************************************************************************)
OrgKey == <<"get_all_org_details_parallel", "">>

OrgTitle(o) == CASE o = "a" -> "Org A" [] o = "b" -> "Org B" [] OTHER -> "Org C"

\* result of organization_show?id=o: the organization's record, or a
\* record that carries no name field (the case line 151 guards against)
OrgRecord(o) == [name |-> o, title |-> OrgTitle(o)]
NamelessRecord(o) == [title |-> OrgTitle(o)]
DetailResponses(o) ==
    {Response("ok", OrgRecord(o)), Response("ok", NamelessRecord(o)),
     Response("ok", EmptyDict)}
    \cup Failures(None)

\* lines 134-141: fetch_detail returns the result on status 200 and None on
\* any other status and on every exception
fetch_detail(resp) == IF resp.kind = "ok" THEN resp.result ELSE None

\* line 147: if result (None, {} and [] are false)
Truthy(result) == result # None /\ result # EmptyDict

HasName(org) == "name" \in DOMAIN org

\* line 151
FetchedIds(details) ==
    {details[i].name : i \in {j \in DOMAIN details : HasName(details[j])}}

\* line 154
Stub(oid) == [name |-> oid, title |-> oid]

\* lines 151-154: the stubs of the identifiers without a fetched record,
\* appended in the order of org_ids
RECURSIVE WithStubs(_, _)
WithStubs(details, ids) ==
    LET fetched == FetchedIds(details)
        RECURSIVE Go(_, _)
        Go(acc, rest) ==
            IF rest = <<>> THEN acc
            ELSE Go(IF Head(rest) \notin fetched
                    THEN Append(acc, Stub(Head(rest))) ELSE acc,
                    Tail(rest))
    IN  Go(details, ids)

(***************************************************************************)
(* Initial state: a new session, no cache file, nothing memoized           *)
(***************************************************************************)
NoException == [fn |-> "none", exc |-> "none"]
NoLoad == [called |-> FALSE, refresh |-> FALSE, before |-> "absent", wrote |-> FALSE]
NoCall == [called |-> FALSE, refresh |-> FALSE, wrote |-> FALSE,
           returned |-> FALSE, kept |-> FALSE]

NoApiCall == [op |-> "none", cached |-> FALSE, resp |-> Response("ok", 0),
              ret |-> Returned(0)]

FetchInit ==
    /\ limit = 0 /\ total_count = 0 /\ total_pages = 0
    /\ page = 0 /\ attempt = 0 /\ success = FALSE
    /\ all_results = <<>> /\ requests = <<>> /\ report = NoReport
    /\ http_calls = 0 /\ source = "none" /\ fetch_started = FALSE
    /\ in_flight = {} /\ progress = <<>>
    /\ load_log = NoLoad

\* the locals of a call are gone when the run ends
ResetFetch ==
    /\ limit' = 0 /\ total_count' = 0 /\ total_pages' = 0
    /\ page' = 0 /\ attempt' = 0 /\ success' = FALSE
    /\ all_results' = <<>> /\ requests' = <<>> /\ report' = NoReport
    /\ http_calls' = 0 /\ source' = "none" /\ fetch_started' = FALSE
    /\ in_flight' = {} /\ progress' = <<>>
    /\ load_log' = NoLoad

\* nothing of the script after line 165 has run
RunInit ==
    /\ stop_report = FALSE /\ steps = {}
    /\ df_datasets = <<>> /\ org_dataset_count = <<>> /\ total_views = 0
    /\ all_orgs = <<>> /\ stale_used = {}

ResetRun ==
    /\ stop_report' = FALSE /\ steps' = {}
    /\ df_datasets' = <<>> /\ org_dataset_count' = <<>> /\ total_views' = 0
    /\ all_orgs' = <<>> /\ stale_used' = {}

TwoInit ==
    /\ sess = [s \in Sessions |-> IdleSession]
    /\ fs = [name |-> 0, inodes |-> [i \in Inodes |-> FreeInode]]
    /\ last_write = NoWrite

OrgIdle ==
    /\ org_pc = "idle" /\ org_ids = <<>>
    /\ futures = <<>> /\ org_details = <<>>

Init ==
    /\ pc = "idle"
    /\ refresh_cache = FALSE                       \* lines 16-17
    /\ cache_file = NoFile
    /\ memo = ClearedMemo
    /\ dataset_data = <<>> /\ datasets = <<>> /\ orgs = <<>>
    /\ raised = NoException
    /\ last_written = <<>> /\ cache_state = "absent"
    /\ prev_call = NoCall
    /\ FetchInit
    /\ OrgIdle
    /\ api_ret = NoApiCall
    /\ RunInit /\ stale = {}
    /\ TwoInit

(***************************************************************************)
(* The script run                                                          *)
(***************************************************************************)
\* a value served from the memoized entry `key` is noted when that entry is
\* older than the pending refresh request
UsedStale(key, what) ==
    IF key \in stale THEN stale_used \cup {what} ELSE stale_used

\* lines 16-25: a rerun of the script; the button sets the refresh flag
Rerun(pressed) ==
    /\ pc = "idle"
    /\ refresh_cache' = (IF pressed THEN TRUE ELSE refresh_cache)
    /\ pc' = "get_datasets"
    /\ UNCHANGED <<cache_file, memo, dataset_data, datasets, orgs, raised,
                   last_written, cache_state, prev_call, fetchVars, orgVars,
                   api_ret, runVars, stale_used, twoVars>>

\* the rerun, the age of the memoized entries not being followed
RunScript(pressed) ==
    /\ Rerun(pressed)
    /\ UNCHANGED stale

\* the rerun, noting the entries that exist when the refresh is requested
RunPage(pressed) ==
    /\ Rerun(pressed)
    /\ stale' = IF pressed THEN {k \in MemoKeys : memo[k].has} ELSE stale

\* line 160: datasets = get_datasets()
GetDatasets ==
    /\ pc = "get_datasets"
    /\ LET key == <<"get_datasets", "">> IN
       IF memo[key].has
       THEN /\ datasets' = memo[key].val
            /\ pc' = "get_organizations"
            /\ UNCHANGED <<memo, raised>>
       ELSE \E resp \in PackageListResponses :
              LET ret == get_datasets(resp) IN
              /\ memo' = Memoize(memo, key, ret)
              /\ IF ret.raised
                 THEN /\ pc' = "crashed"
                      /\ raised' = [fn |-> "get_datasets", exc |-> ret.exc]
                      /\ UNCHANGED datasets
                 ELSE /\ pc' = "get_organizations"
                      /\ datasets' = ret.value
                      /\ UNCHANGED raised
    /\ stale_used' = IF memo[<<"get_datasets", "">>].has
                     THEN UsedStale(<<"get_datasets", "">>, "datasets")
                     ELSE stale_used
    /\ UNCHANGED <<refresh_cache, cache_file, dataset_data, orgs,
                   last_written, cache_state, prev_call, fetchVars, orgVars,
                   api_ret, runVars, stale, twoVars>>

\* line 161: orgs = get_organizations()
GetOrganizations ==
    /\ pc = "get_organizations"
    /\ LET key == <<"get_organizations", "">> IN
       IF memo[key].has
       THEN /\ orgs' = memo[key].val
            /\ pc' = "load"
            /\ UNCHANGED <<memo, raised>>
       ELSE \E resp \in OrgListResponses :
              LET ret == get_organizations(resp) IN
              /\ memo' = Memoize(memo, key, ret)
              /\ IF ret.raised
                 THEN /\ pc' = "crashed"
                      /\ raised' = [fn |-> "get_organizations", exc |-> ret.exc]
                      /\ UNCHANGED orgs
                 ELSE /\ pc' = "load"
                      /\ orgs' = ret.value
                      /\ UNCHANGED raised
    /\ stale_used' = IF memo[<<"get_organizations", "">>].has
                     THEN UsedStale(<<"get_organizations", "">>, "orgs")
                     ELSE stale_used
    /\ UNCHANGED <<refresh_cache, cache_file, dataset_data, datasets,
                   last_written, cache_state, prev_call, fetchVars, orgVars,
                   api_ret, runVars, stale, twoVars>>

\* lines 104-120: the refresh branch and the cache read of
\* search_datasets_paginated(limit=lim)
LoadCache(lim) ==
    /\ pc = "load"
    /\ LET file == AfterRefreshFile(refresh_cache, cache_file) IN
       /\ refresh_cache' = FALSE                                \* line 108
       /\ memo' = AfterRefreshMemo(refresh_cache, memo)         \* line 111
       /\ stale' = IF refresh_cache THEN {} ELSE stale
       /\ limit' = lim
       /\ load_log' = [called |-> TRUE, refresh |-> refresh_cache,
                       before |-> cache_state, wrote |-> FALSE]
       /\ IF CacheHit(file)
          THEN /\ dataset_data' = JsonLoad(file.content).value    \* line 116
               /\ pc' = "returned"
               /\ source' = "cache"
               /\ cache_file' = file
               /\ UNCHANGED <<fetch_started, last_written, cache_state>>
          ELSE /\ cache_file' = NoFile                      \* lines 110, 118
               /\ last_written' = <<>>
               /\ cache_state' = "absent"
               /\ pc' = "count"                                  \* line 120
               /\ fetch_started' = TRUE
               /\ UNCHANGED <<dataset_data, source>>
    /\ UNCHANGED <<datasets, orgs, raised, prev_call, total_count,
                   total_pages, page, attempt, success, all_results,
                   requests, report, http_calls, in_flight, progress,
                   orgVars, api_ret, runVars, stale_used, twoVars>>

\* lines 64-75: total_count = get_dataset_count(), total_pages
CountDatasets ==
    /\ pc = "count"
    /\ LET key == <<"get_dataset_count", "">>
           enter(total) ==
               /\ total_count' = total
               /\ total_pages' = TotalPages(limit, total)
               /\ pc' = IF TotalPages(limit, total) > 0 THEN "attempt" ELSE "write"
               /\ page' = 0
               /\ attempt' = 1
               /\ UNCHANGED raised
       IN
       IF memo[key].has
       THEN /\ enter(memo[key].val)
            /\ UNCHANGED <<memo, http_calls>>
       ELSE \E resp \in CountResponses :
              LET ret == get_dataset_count(resp) IN
              /\ memo' = Memoize(memo, key, ret)
              /\ http_calls' = http_calls + 1
              /\ IF ret.raised
                 THEN /\ pc' = "crashed"
                      /\ raised' = [fn |-> "get_dataset_count", exc |-> ret.exc]
                      /\ UNCHANGED <<total_count, total_pages, page, attempt>>
                 ELSE enter(ret.value)
    /\ UNCHANGED <<refresh_cache, cache_file, dataset_data, datasets, orgs,
                   last_written, cache_state, prev_call, limit, success,
                   all_results, requests, report, source, fetch_started,
                   in_flight, progress, load_log, orgVars, api_ret,
                   runVars, stale, twoVars>>
    /\ stale_used' = IF memo[<<"get_dataset_count", "">>].has
                     THEN UsedStale(<<"get_dataset_count", "">>, "total_count")
                     ELSE stale_used

\* lines 82-83: requests.get is called and blocks until the answer
SendRequest ==
    /\ pc = "attempt"
    /\ in_flight' = in_flight \cup {Offset(page)}
    /\ pc' = "in_flight"
    /\ UNCHANGED <<scriptVars, limit, total_count, total_pages, page, attempt,
                   success, all_results, requests, report, http_calls, source,
                   fetch_started, progress, load_log, orgVars, api_ret,
                   tailVars, twoVars>>

\* lines 80-92: the answer resp arrives and ends one attempt of the current
\* page
Attempt(resp) ==
    /\ pc = "in_flight"
    /\ in_flight' = in_flight \ {Offset(page)}
    /\   LET ok == AttemptOk(resp)
             next == AfterAttempt(ok, attempt)
         IN
         /\ requests' = Append(requests,
                [start |-> Offset(page), ok |-> resp.kind = "ok",
                 results |-> IF resp.kind = "ok" THEN resp.result ELSE <<>>])
         /\ http_calls' = http_calls + 1
         /\ all_results' = IF ok THEN Extend(all_results, resp.result)
                                 ELSE all_results
         /\ success' = (success \/ ok)                           \* line 87
         /\ attempt' = IF next = "retry" THEN attempt + 1 ELSE attempt
         /\ pc' = IF next = "retry" THEN "attempt" ELSE "page_end"
    /\ UNCHANGED <<scriptVars, limit, total_count, total_pages, page, report,
                   source, fetch_started, progress, load_log, orgVars, api_ret,
                   tailVars, twoVars>>

\* the break of line 98 is missing: the loop goes on after a failed page
PageEndNoBreak ==
    /\ pc = "page_end"
    /\ report' = IF success THEN report ELSE FailureReport(page)
    /\ IF page + 1 < total_pages
       THEN /\ page' = page + 1
            /\ attempt' = 1
            /\ success' = FALSE
            /\ pc' = "attempt"
       ELSE /\ pc' = "write"
            /\ UNCHANGED <<page, attempt, success>>
    /\ progress' = Append(progress, ProgressReport(page, total_pages,
                                                   Len(requests)))  \* line 94
    /\ UNCHANGED <<scriptVars, limit, total_count, total_pages, all_results,
                   requests, http_calls, source, fetch_started, in_flight,
                   load_log, orgVars, api_ret,
                   tailVars, twoVars>>

\* lines 94-100: progress, then the failure report and break, or the next page
PageEnd ==
    /\ pc = "page_end"
    /\ IF ~success
       THEN /\ report' = FailureReport(page)                     \* line 97
            /\ pc' = "write"                                     \* line 98
            /\ UNCHANGED <<page, attempt, success>>
       ELSE IF page + 1 < total_pages
       THEN /\ page' = page + 1                                 \* line 75
            /\ attempt' = 1                                      \* line 80
            /\ success' = FALSE                                  \* line 77
            /\ pc' = "attempt"
            /\ UNCHANGED report
       ELSE /\ pc' = "write"        \* the loop of line 75 is over
            /\ UNCHANGED <<page, attempt, success, report>>
    /\ progress' = Append(progress, ProgressReport(page, total_pages,
                                                   Len(requests)))  \* line 94
    /\ UNCHANGED <<scriptVars, limit, total_count, total_pages, all_results,
                   requests, http_calls, source, fetch_started, in_flight,
                   load_log, orgVars, api_ret,
                   tailVars, twoVars>>

\* lines 101-102, 120-127: the fetcher returns, the result is written to
\* the cache file (best effort) and returned
WriteCache ==
    /\ pc = "write"
    /\ \E outcome \in WriteOutcomes :
       \E torn \in ProperPrefixes(JsonDump(all_results)) :
         /\ outcome # "dump_error" => torn = <<>>
         /\ cache_file' = AfterWrite(cache_file, all_results, outcome, torn)
         /\ last_written' = IF outcome = "ok" THEN all_results ELSE last_written
         /\ cache_state' = IF outcome = "ok"
                           THEN (IF report = NoReport THEN "full" ELSE "partial")
                           ELSE IF outcome = "dump_error" THEN "torn"
                           ELSE cache_state
         /\ load_log' = [load_log EXCEPT !.wrote = (outcome = "ok")]
    /\ dataset_data' = all_results                               \* line 127
    /\ source' = "fetch"
    /\ pc' = "returned"
    \* the fetcher has returned: its count, its attempt counter and the log
    \* of its requests are gone; the list it returned, the page its loop
    \* ended at, with or without success, and its report on the page stay
    /\ total_count' = 0 /\ attempt' = 0
    /\ requests' = <<>> /\ progress' = <<>> /\ http_calls' = 0
    /\ UNCHANGED <<refresh_cache, memo, datasets, orgs, raised, prev_call,
                   limit, total_pages, page, success, all_results, report,
                   fetch_started, in_flight, orgVars, api_ret, tailVars,
                   twoVars>>

\* the script goes on to the projection although the list is empty
CheckEmptyNoStop ==
    /\ pc = "returned"
    /\ pc' = "project"
    /\ UNCHANGED <<scriptVars, fetchVars, orgVars, api_ret, tailVars, twoVars>>

\* lines 166-169: an empty dataset list stops the script
CheckEmpty ==
    /\ pc = "returned"
    /\ IF dataset_data = <<>>                                  \* line 167
       THEN /\ stop_report' = TRUE                             \* line 168
            /\ pc' = "stopped"                                 \* line 169
       ELSE /\ pc' = "project"
            /\ UNCHANGED stop_report
    /\ UNCHANGED <<scriptVars, fetchVars, orgVars, api_ret, steps,
                   df_datasets, org_dataset_count, total_views, all_orgs,
                   stale, stale_used, twoVars>>

\* lines 170-182 applied to the records recs: projection, organization
\* counts, view total; to is the position after line 182
Projected(recs, to) ==
    LET df == Projection(recs) IN
    IF df.raised
    THEN /\ raised' = [fn |-> "df_datasets", exc |-> df.exc]
         /\ steps' = steps \cup {"projection"}
         /\ pc' = "crashed"
         /\ UNCHANGED <<df_datasets, org_dataset_count, total_views>>
    ELSE /\ df_datasets' = df.value
         /\ org_dataset_count' = ValueCounts(Column(df.value, "organization"))
         /\ total_views' = SumOf(Column(df.value, "views"))
         /\ steps' = steps \cup {"projection", "org_counts", "view_total"}
         /\ pc' = to
         /\ UNCHANGED raised

\* lines 170-182 in the script run
Project ==
    /\ pc = "project"
    /\ Projected(Records(dataset_data), "render")
    /\ UNCHANGED <<refresh_cache, cache_file, memo, dataset_data, datasets,
                   orgs, last_written, cache_state, prev_call, fetchVars,
                   orgVars, api_ret, stop_report, all_orgs, stale, stale_used,
                   twoVars>>

(***************************************************************************)
(* get_all_org_details_parallel (dashboard.py 129-156)                     *)
(***************************************************************************)
\* ThreadPoolExecutor(max_workers=max_threads), line 130
max_threads == 20

\* the lists organization_list can return: the duplicate-free sequences of
\* organization names
AllOrgLists ==
    {l \in SeqUpTo(OrgIds, Cardinality(OrgIds)) :
        \A i, j \in DOMAIN l : i # j => l[i] # l[j]}
AllOrgListResponses == {Response("ok", l) : l \in AllOrgLists} \cup Failures(<<>>)

Pending == [state |-> "pending", result |-> None, collected |-> FALSE]

\* the memoized call of line 267 starts, organization_list answering from
\* responses; lines 129-132
OrgCall(responses) ==
    /\ org_pc = "idle"
    /\ IF memo[OrgKey].has
       THEN /\ org_details' = memo[OrgKey].val
            /\ org_pc' = "cached"
            /\ UNCHANGED <<memo, org_ids, raised>>
       ELSE LET key == <<"get_organizations", "">> IN
            IF memo[key].has
            THEN /\ org_ids' = memo[key].val
                 /\ org_pc' = "submit"
                 /\ UNCHANGED <<memo, org_details, raised>>
            ELSE \E resp \in responses :
                   LET ret == get_organizations(resp) IN
                   /\ memo' = Memoize(memo, key, ret)
                   /\ IF ret.raised
                      THEN /\ org_pc' = "crashed"
                           /\ raised' = [fn |-> "get_organizations", exc |-> ret.exc]
                           /\ UNCHANGED <<org_ids, org_details>>
                      ELSE /\ org_pc' = "submit"
                           /\ org_ids' = ret.value
                           /\ UNCHANGED <<org_details, raised>>
    /\ UNCHANGED <<refresh_cache, cache_file, dataset_data, datasets,
                   orgs, last_written, cache_state, prev_call, fetchVars,
                   futures, api_ret, stop_report, df_datasets,
                   org_dataset_count, total_views, all_orgs, stale, twoVars>>

\* the call on its own
OrgStart ==
    /\ OrgCall(AllOrgListResponses)
    /\ UNCHANGED <<pc, steps, stale_used>>

\* line 144: the comprehension submits one fetch_detail per element of
\* org_ids, in order; the pool threads run while it goes on
Submit ==
    /\ org_pc = "submit"
    /\ IF Len(futures) < Len(org_ids)
       THEN /\ futures' = Append(futures, Pending)
            /\ org_pc' = IF Len(futures) + 1 = Len(org_ids) THEN "pool"
                                                            ELSE "submit"
       ELSE /\ org_pc' = "pool"
            /\ UNCHANGED futures
    /\ UNCHANGED <<pc, scriptVars, fetchVars, org_ids, org_details, api_ret,
                   tailVars, twoVars>>

\* a pool thread takes the i-th submitted fetch_detail
WorkerStart(i) ==
    /\ org_pc \in {"submit", "pool"}
    /\ i \in DOMAIN futures
    /\ futures[i].state = "pending"
    /\ Cardinality({x \in DOMAIN futures : futures[x].state = "running"}) < max_threads
    /\ futures' = [futures EXCEPT ![i].state = "running"]
    /\ UNCHANGED <<pc, scriptVars, fetchVars, org_pc, org_ids, org_details, api_ret,
                   tailVars, twoVars>>

\* lines 135-141: the thread's fetch_detail(org_ids[i]) returns
WorkerFinish(i) ==
    /\ org_pc \in {"submit", "pool"}
    /\ i \in DOMAIN futures
    /\ futures[i].state = "running"
    /\ \E resp \in DetailResponses(org_ids[i]) :
         futures' = [futures EXCEPT ![i].state = "done",
                                    ![i].result = fetch_detail(resp)]
    /\ UNCHANGED <<pc, scriptVars, fetchVars, org_pc, org_ids, org_details, api_ret,
                   tailVars, twoVars>>

\* lines 145-148: as_completed yields a finished future
Collect(i) ==
    /\ org_pc = "pool"
    /\ i \in DOMAIN futures
    /\ futures[i].state = "done"
    /\ ~futures[i].collected
    /\ futures' = [futures EXCEPT ![i].collected = TRUE]
    /\ org_details' = IF Truthy(futures[i].result)
                      THEN Append(org_details, futures[i].result)
                      ELSE org_details
    /\ UNCHANGED <<pc, scriptVars, fetchVars, org_pc, org_ids, api_ret,
                   tailVars, twoVars>>

\* the loop stops as soon as one future was collected
PoolExitEarly ==
    /\ org_pc = "pool"
    /\ \E o \in DOMAIN futures : futures[o].collected
    /\ org_pc' = "fallback"
    /\ UNCHANGED <<pc, scriptVars, fetchVars, org_ids, futures, org_details, api_ret,
                   tailVars, twoVars>>

\* lines 143-148: as_completed is exhausted and the with block shuts the
\* pool down, waiting for every thread
PoolExit ==
    /\ org_pc = "pool"
    /\ \A o \in DOMAIN futures : futures[o].collected
    /\ org_pc' = "fallback"
    /\ UNCHANGED <<pc, scriptVars, fetchVars, org_ids, futures, org_details, api_ret,
                   tailVars, twoVars>>

\* lines 150-156: the fallback stubs, the return, the memoized entry
Fallback ==
    /\ org_pc = "fallback"
    /\ org_details' = WithStubs(org_details, org_ids)
    /\ memo' = [memo EXCEPT ![OrgKey] = Entry(WithStubs(org_details, org_ids))]
    /\ org_pc' = "returned"
    /\ UNCHANGED <<pc, refresh_cache, cache_file, dataset_data, datasets,
                   orgs, raised, last_written, cache_state, prev_call,
                   fetchVars, org_ids, futures, api_ret,
                   tailVars, twoVars>>

\* the caller goes on; the locals of the call are gone
OrgEnd ==
    /\ org_pc \in {"returned", "cached", "crashed"}
    /\ org_pc' = "idle"
    /\ org_ids' = <<>>
    /\ futures' = <<>>
    /\ org_details' = <<>>
    /\ raised' = NoException
    /\ UNCHANGED <<pc, refresh_cache, cache_file, memo, dataset_data, datasets,
                   orgs, last_written, cache_state, prev_call, fetchVars,
                   api_ret,
                   tailVars, twoVars>>

\* lines 184-267: the tabs are drawn up to the call of
\* get_all_org_details_parallel, which starts (lines 129-132)
Render ==
    /\ pc = "render"
    /\ steps' = steps \cup {"org_details", "rendering"}
    /\ OrgCall(OrgListResponses)
    /\ pc' = "org_details"
    /\ stale_used' =
         IF memo[OrgKey].has THEN UsedStale(OrgKey, "org_details")
         ELSE IF memo[<<"get_organizations", "">>].has
              THEN UsedStale(<<"get_organizations", "">>, "org_details")
              ELSE stale_used

\* lines 267-269: the call is over and its locals are gone; its exception
\* ends the run, as does the KeyError of org["title"] or org["name"]
RenderOrgs ==
    /\ pc = "org_details"
    /\ org_pc \in {"returned", "cached", "crashed"}
    /\ IF org_pc = "crashed"
       THEN /\ pc' = "crashed"
            /\ UNCHANGED <<raised, all_orgs>>
       ELSE /\ all_orgs' = org_details
            /\ IF \E i \in DOMAIN org_details : ~HasName(org_details[i])
               THEN /\ pc' = "crashed"
                    /\ raised' = [fn |-> "tab2", exc |-> "KeyError"]
               ELSE /\ pc' = "done"
                    /\ UNCHANGED raised
    /\ org_pc' = "idle"
    /\ org_ids' = <<>>
    /\ futures' = <<>>
    /\ org_details' = <<>>
    /\ UNCHANGED <<refresh_cache, cache_file, memo, dataset_data, datasets,
                   orgs, last_written, cache_state, prev_call, fetchVars,
                   api_ret, stop_report, steps, df_datasets,
                   org_dataset_count, total_views, stale, stale_used,
                   twoVars>>

\* what the run leaves for the next one to be compared with
CallSummary ==
    IF load_log.called
    THEN [called |-> TRUE, refresh |-> load_log.refresh,
          wrote |-> load_log.wrote, returned |-> source # "none",
          kept |-> source = "cache" \/ load_log.wrote]
    ELSE prev_call

\* a run is over: its locals are gone, the next interaction reruns the
\* script
RunEnds ==
    /\ pc' = "idle"
    /\ dataset_data' = <<>> /\ datasets' = <<>> /\ orgs' = <<>>
    /\ raised' = NoException
    /\ ResetFetch
    /\ ResetRun
    /\ UNCHANGED <<refresh_cache, cache_file, memo, last_written, cache_state,
                   orgVars, api_ret, stale, twoVars>>

\* the run ends: by st.stop(), at the end of the script, or by an uncaught
\* exception; what its call of search_datasets_paginated did is kept for
\* the next run to be compared with
EndRun ==
    /\ pc \in {"stopped", "done", "crashed"}
    /\ prev_call' = CallSummary
    /\ RunEnds

\* the run ends, the previous call not being followed
EndScript ==
    /\ pc \in {"stopped", "done", "crashed"}
    /\ UNCHANGED prev_call
    /\ RunEnds

(***************************************************************************)
(* Environment                                                             *)
(***************************************************************************)
\* the cache file is truncated between two runs
CorruptCache ==
    /\ pc = "idle"
    /\ cache_file.exists
    /\ \E pre \in ProperPrefixes(cache_file.content) :
         cache_file' = File(pre)
    /\ cache_state' = "corrupt"
    /\ UNCHANGED <<pc, refresh_cache, memo, dataset_data, datasets, orgs,
                   raised, last_written, prev_call, fetchVars, orgVars, api_ret,
                   tailVars, twoVars>>

\* a memoized entry reaches its ttl, between two runs or during one
Expire(key) ==
    /\ memo[key].has
    /\ memo' = [memo EXCEPT ![key] = NoEntry]
    /\ stale' = stale \ {key}
    /\ UNCHANGED <<pc, refresh_cache, cache_file, dataset_data, datasets, orgs,
                   raised, last_written, cache_state, prev_call, fetchVars,
                   orgVars, api_ret, runVars, stale_used, twoVars>>

\* line 165: search_datasets_paginated(limit=10000)
LoadScript == LoadCache(10000)

Next ==
    \/ \E pressed \in BOOLEAN : RunScript(pressed)
    \/ GetDatasets
    \/ GetOrganizations
    \/ LoadScript
    \/ CountDatasets
    \/ SendRequest
    \/ \E resp \in ScriptPageResponses : Attempt(resp)
    \/ PageEnd
    \/ WriteCache
    \/ CheckEmpty
    \/ Project
    \/ Render
    \/ Submit
    \/ \E i \in 1..Cardinality(OrgIds) : WorkerStart(i)
    \/ \E i \in 1..Cardinality(OrgIds) : WorkerFinish(i)
    \/ \E i \in 1..Cardinality(OrgIds) : Collect(i)
    \/ PoolExit
    \/ Fallback
    \/ RenderOrgs
    \/ EndRun
    \/ CorruptCache
    \/ \E key \in MemoKeys : Expire(key)

Spec == Init /\ [][Next]_vars

(***************************************************************************)
(* The same runs, following which memoized entries are older than a        *)
(* pending refresh request                                                 *)
(***************************************************************************)
NextPage ==
    \/ \E pressed \in BOOLEAN : RunPage(pressed)
    \/ GetDatasets
    \/ GetOrganizations
    \/ LoadScript
    \/ CountDatasets
    \/ SendRequest
    \/ \E resp \in ScriptPageResponses : Attempt(resp)
    \/ PageEnd
    \/ WriteCache
    \/ CheckEmpty
    \/ Project
    \/ Render
    \/ Submit
    \/ \E i \in 1..Cardinality(OrgIds) : WorkerStart(i)
    \/ \E i \in 1..Cardinality(OrgIds) : WorkerFinish(i)
    \/ \E i \in 1..Cardinality(OrgIds) : Collect(i)
    \/ PoolExit
    \/ Fallback
    \/ RenderOrgs
    \/ EndScript
    \/ \E key \in MemoKeys : Expire(key)

SpecPage == Init /\ [][NextPage]_vars

(***************************************************************************)
(* The projection applied to a list of dataset records (lines 170-182)     *)
(***************************************************************************)
MaxRecords == 3

\* the non-empty record lists (the script stops on an empty one, line 169)
RecordLists == SeqUpTo(RecordKinds, MaxRecords) \ {<<>>}

ProjectRecords(recs) ==
    /\ pc = "idle"
    /\ dataset_data' = recs
    /\ Projected(recs, "projected")
    /\ UNCHANGED <<refresh_cache, cache_file, memo, datasets, orgs,
                   last_written, cache_state, prev_call, fetchVars, orgVars,
                   api_ret, stop_report, all_orgs, stale, stale_used, twoVars>>

ProjectEnd ==
    /\ pc \in {"projected", "crashed"}
    /\ pc' = "idle"
    /\ dataset_data' = <<>>
    /\ raised' = NoException
    /\ ResetRun
    /\ UNCHANGED <<refresh_cache, cache_file, memo, datasets, orgs,
                   last_written, cache_state, prev_call, fetchVars, orgVars,
                   api_ret, stale, twoVars>>

NextProj ==
    \/ \E recs \in RecordLists : ProjectRecords(recs)
    \/ ProjectEnd

SpecProj == Init /\ [][NextProj]_vars

(***************************************************************************)
(* Direct calls of _search_datasets_paginated_reliable(limit), for every   *)
(* limit a caller can pass (the script passes 10000, line 165)             *)
(***************************************************************************)
FetcherLimits == {0, 1, 1000, 1500, 10000}

\* line 64: the call
FetchCall(lim) ==
    /\ pc = "idle"
    /\ limit' = lim
    /\ fetch_started' = TRUE
    /\ pc' = "count"
    /\ UNCHANGED <<scriptVars, total_count, total_pages, page, attempt,
                   success, all_results, requests, report, http_calls, source,
                   in_flight, progress, load_log, orgVars, api_ret,
                   tailVars, twoVars>>

\* lines 101-102: return all_results
FetchReturn ==
    /\ pc = "write"
    /\ dataset_data' = all_results
    /\ pc' = "fetched"
    /\ UNCHANGED <<refresh_cache, cache_file, memo, datasets, orgs, raised,
                   last_written, cache_state, prev_call, fetchVars, orgVars,
                   api_ret,
                   tailVars, twoVars>>

\* the caller goes on, after the return or the exception of line 68
FetchEnd ==
    /\ pc \in {"fetched", "crashed"}
    /\ pc' = "idle"
    /\ dataset_data' = <<>>
    /\ raised' = NoException
    /\ ResetFetch
    /\ UNCHANGED <<refresh_cache, cache_file, memo, datasets, orgs,
                   last_written, cache_state, prev_call, orgVars, api_ret,
                   tailVars, twoVars>>

\* the memoized total count reaches its ttl
CountExpire == Expire(<<"get_dataset_count", "">>)

NextFetch ==
    \/ \E lim \in FetcherLimits : FetchCall(lim)
    \/ CountDatasets
    \/ SendRequest
    \/ \E resp \in PageResponses : Attempt(resp)
    \/ PageEnd
    \/ FetchReturn
    \/ FetchEnd
    \/ CountExpire

SpecFetch == Init /\ [][NextFetch]_vars

\* every call made is answered or times out (timeout=10, timeout=15), and
\* the single thread of the fetcher runs on
FetcherFairness ==
    /\ WF_vars(CountDatasets)
    /\ WF_vars(SendRequest)
    /\ WF_vars(\E resp \in PageResponses : Attempt(resp))
    /\ WF_vars(PageEnd)
    /\ WF_vars(FetchReturn)

SpecFetchLive == SpecFetch /\ FetcherFairness

NextOrg ==
    \/ OrgStart
    \/ Submit
    \/ \E i \in 1..Cardinality(OrgIds) : WorkerStart(i)
    \/ \E i \in 1..Cardinality(OrgIds) : WorkerFinish(i)
    \/ \E i \in 1..Cardinality(OrgIds) : Collect(i)
    \/ PoolExit
    \/ Fallback
    \/ OrgEnd
    \/ \E key \in MemoKeys : Expire(key)

SpecOrg == Init /\ [][NextOrg]_vars

(***************************************************************************)
(* Calls of the API wrappers (dashboard.py 28-63) through st.cache_data    *)
(***************************************************************************)
DatasetRecord(d) == [name |-> d]

\* the neutral value of each wrapper: lines 33, 40, 47, 54, 63
Neutral(op) ==
    IF op \in {"get_organizations", "get_datasets"} THEN <<>>
    ELSE IF op = "get_dataset_count" THEN 0
    ELSE None

\* the result fields the upstream can send to each wrapper
ApiResults(op, arg) ==
    IF op = "get_organizations" THEN OrgLists
    ELSE IF op = "get_datasets" THEN PackageLists
    ELSE IF op = "get_dataset_count" THEN Counts
    ELSE IF op = "get_dataset_detail" THEN {DatasetRecord(arg)}
    ELSE {OrgRecord(arg)}

\* the wrapper named op
Wrapper(op, resp) ==
    IF op = "get_organizations" THEN get_organizations(resp)
    ELSE IF op = "get_datasets" THEN get_datasets(resp)
    ELSE IF op = "get_dataset_count" THEN get_dataset_count(resp)
    ELSE IF op = "get_dataset_detail" THEN get_dataset_detail(resp)
    ELSE get_org_detail(resp)

ApiResponses(op, arg) ==
    {Response("ok", r) : r \in ApiResults(op, arg)} \cup Failures(Neutral(op))

\* one call op(arg): the memoized entry if there is one, else the wrapper
ApiCall(op, arg) ==
    /\ pc = "idle" /\ org_pc = "idle"
    /\ LET key == <<op, arg>> IN
       IF memo[key].has
       THEN /\ api_ret' = [op |-> op, cached |-> TRUE,
                           resp |-> Response("ok", memo[key].val),
                           ret |-> Returned(memo[key].val)]
            /\ UNCHANGED memo
       ELSE \E resp \in ApiResponses(op, arg) :
              LET ret == Wrapper(op, resp) IN
              /\ api_ret' = [op |-> op, cached |-> FALSE, resp |-> resp,
                             ret |-> ret]
              /\ memo' = Memoize(memo, key, ret)
    /\ UNCHANGED <<pc, refresh_cache, cache_file, dataset_data, datasets,
                   orgs, raised, last_written, cache_state, prev_call,
                   fetchVars, orgVars,
                   tailVars, twoVars>>

CallGetOrganizations == ApiCall("get_organizations", "")
CallGetDatasets == ApiCall("get_datasets", "")
CallGetDatasetDetail(d) == ApiCall("get_dataset_detail", d)
CallGetOrgDetail(o) == ApiCall("get_org_detail", o)
CallGetDatasetCount == ApiCall("get_dataset_count", "")

\* a memoized entry reaches its ttl
ApiExpire(key) ==
    /\ memo[key].has
    /\ memo' = [memo EXCEPT ![key] = NoEntry]
    /\ api_ret' = NoApiCall
    /\ UNCHANGED <<pc, refresh_cache, cache_file, dataset_data, datasets,
                   orgs, raised, last_written, cache_state, prev_call,
                   fetchVars, orgVars,
                   tailVars, twoVars>>

NextApi ==
    \/ CallGetOrganizations
    \/ CallGetDatasets
    \/ \E d \in DatasetIds : CallGetDatasetDetail(d)
    \/ \E o \in OrgIds : CallGetOrgDetail(o)
    \/ CallGetDatasetCount
    \/ \E key \in MemoKeys : ApiExpire(key)

SpecApi == Init /\ [][NextApi]_vars

(***************************************************************************)
(* Two sessions calling search_datasets_paginated (dashboard.py 104-127)   *)
(* on the same dataset_cache.json and the same st.cache_data, one system  *)
(* call per step. An open or a write of the cache can fail, the request    *)
(* for the total has every answer of CountResponses, and a memoized entry  *)
(* can reach its ttl at any step.                                          *)
(***************************************************************************)
oneVars == <<pc, refresh_cache, cache_file, dataset_data, datasets, orgs,
            raised, last_written, cache_state, prev_call, fetchVars, orgVars,
            api_ret, tailVars>>

\* the lists the page loop can return when there is a page to ask for
FetchedLists == {<<>>, <<"d1">>, <<"d2", "d1">>}

Handles(ss) == {ss[s].handle : s \in Sessions} \ {0}

\* an inode without a name and without an open handle is gone
Collected(f, ss) ==
    [f EXCEPT !.inodes = [i \in Inodes |->
        IF i = f.name \/ i \in Handles(ss) THEN f.inodes[i] ELSE FreeInode]]

\* os.remove(cache_file): the name is taken away
Unlinked(f) == [f EXCEPT !.name = 0]

FreshInode(f) == CHOOSE i \in Inodes : ~f.inodes[i].live

\* open(cache_file, "w"): the file is truncated, or created
OpenedForWrite(f) ==
    IF f.name # 0
    THEN [f EXCEPT !.inodes[f.name].content = <<>>]
    ELSE [f EXCEPT !.name = FreshInode(f),
                   !.inodes[FreshInode(f)] = [live |-> TRUE, content |-> <<>>]]

\* a write of one token at position pos of an open file; a position beyond
\* the end leaves a hole
WriteAt(content, pos, tok) ==
    LET n == IF Len(content) > pos + 1 THEN Len(content) ELSE pos + 1 IN
    [i \in 1..n |-> IF i = pos + 1 THEN tok
                    ELSE IF i <= Len(content) THEN content[i]
                    ELSE "NUL"]

\* the session goes to `to`
Goto(s, to) == sess' = [sess EXCEPT ![s].pc = to]

\* line 104: the call, with the session's refresh flag set or not
TwoStart(s, pressed) ==
    /\ sess[s].pc = "idle"
    /\ sess' = [sess EXCEPT ![s].pc = IF pressed THEN "refresh_exists"
                                                 ELSE "exists",   \* line 107
                            ![s].refresh = FALSE]                \* line 108
    /\ UNCHANGED <<fs, last_write, memo, oneVars>>

\* line 109: os.path.exists in the refresh branch
TwoRefreshExists(s) ==
    /\ sess[s].pc = "refresh_exists"
    /\ Goto(s, IF fs.name # 0 THEN "refresh_remove" ELSE "clear")
    /\ UNCHANGED <<fs, last_write, memo, oneVars>>

\* line 110: os.remove, which raises FileNotFoundError when the file is
\* gone; nothing catches it
TwoRefreshRemove(s) ==
    /\ sess[s].pc = "refresh_remove"
    /\ IF fs.name # 0
       THEN /\ fs' = Collected(Unlinked(fs), sess)
            /\ Goto(s, "clear")
       ELSE /\ sess' = [sess EXCEPT ![s].pc = "raised",
                                    ![s].exc = "FileNotFoundError"]
            /\ UNCHANGED fs
    /\ UNCHANGED <<last_write, memo, oneVars>>

\* line 111: st.cache_data.clear()
TwoClear(s) ==
    /\ sess[s].pc = "clear"
    /\ memo' = ClearedMemo
    /\ Goto(s, "exists")
    /\ UNCHANGED <<fs, last_write, oneVars>>

\* line 113: os.path.exists
TwoExists(s) ==
    /\ sess[s].pc = "exists"
    /\ Goto(s, IF fs.name # 0 THEN "open_read" ELSE "count")
    /\ UNCHANGED <<fs, last_write, memo, oneVars>>

\* line 115: open for reading; FileNotFoundError goes to the except clause
TwoOpenRead(s) ==
    /\ sess[s].pc = "open_read"
    /\ IF fs.name # 0
       THEN sess' = [sess EXCEPT ![s].pc = "load", ![s].handle = fs.name]
       ELSE Goto(s, "except_remove")
    /\ UNCHANGED <<fs, last_write, memo, oneVars>>

\* line 116: json.load(f) and the return, or the except clause
TwoLoad(s) ==
    /\ sess[s].pc = "load"
    /\ LET parsed == JsonLoad(fs.inodes[sess[s].handle].content)
           after == [sess EXCEPT ![s].handle = 0,
                                 ![s].pc = IF parsed.ok THEN "done"
                                                        ELSE "except_remove",
                                 ![s].ret = parsed.value]
       IN  /\ sess' = after
           /\ fs' = Collected(fs, after)
    /\ UNCHANGED <<last_write, memo, oneVars>>

\* line 118: os.remove inside the except clause; FileNotFoundError leaves
\* the function
TwoExceptRemove(s) ==
    /\ sess[s].pc = "except_remove"
    /\ IF fs.name # 0
       THEN /\ fs' = Collected(Unlinked(fs), sess)
            /\ Goto(s, "count")
       ELSE /\ sess' = [sess EXCEPT ![s].pc = "raised",
                                    ![s].exc = "FileNotFoundError"]
            /\ UNCHANGED fs
    /\ UNCHANGED <<last_write, memo, oneVars>>

\* lines 120, 68: the fetcher asks for the total, which is memoized; an
\* exception of get_dataset_count leaves both functions
TwoCount(s) ==
    /\ sess[s].pc = "count"
    /\ LET key == <<"get_dataset_count", "">> IN
       IF memo[key].has
       THEN /\ sess' = [sess EXCEPT ![s].pc = "pages",
                                    ![s].total_count = memo[key].val]
            /\ UNCHANGED memo
       ELSE \E resp \in CountResponses :
              LET ret == get_dataset_count(resp) IN
              /\ memo' = Memoize(memo, key, ret)
              /\ sess' = IF ret.raised
                         THEN [sess EXCEPT ![s].pc = "raised",
                                           ![s].exc = ret.exc]
                         ELSE [sess EXCEPT ![s].pc = "pages",
                                           ![s].total_count = ret.value]
    /\ UNCHANGED <<fs, last_write, oneVars>>

\* lines 70-100: the page loop returns the list data; with no page to ask
\* for the list is empty
TwoFetch(s, data) ==
    /\ sess[s].pc = "pages"
    /\ TotalPages(10000, sess[s].total_count) = 0 => data = <<>>
    /\ sess' = [sess EXCEPT ![s].pc = "open_write", ![s].data = data]
    /\ UNCHANGED <<fs, last_write, memo, oneVars>>

\* lines 122-127: open raises; the except clause swallows it and the list
\* is returned, the file being as it was
TwoOpenFail(s) ==
    /\ sess[s].pc = "open_write"
    /\ sess' = [sess EXCEPT ![s].pc = "done", ![s].ret = sess[s].data]
    /\ last_write' = [last_write EXCEPT !.failed = TRUE]
    /\ UNCHANGED <<fs, memo, oneVars>>

\* line 122: open for writing
TwoOpenWrite(s) ==
    /\ sess[s].pc = "open_write"
    /\ fs' = OpenedForWrite(fs)
    /\ sess' = [sess EXCEPT ![s].pc = "dump",
                            ![s].handle = OpenedForWrite(fs).name,
                            ![s].pos = 0]
    /\ UNCHANGED <<last_write, memo, oneVars>>

\* line 123: json.dump, one token of the document reaching the file
TwoDump(s) ==
    /\ sess[s].pc = "dump"
    /\ sess[s].pos < Len(JsonDump(sess[s].data))
    /\ LET h == sess[s].handle
           tok == JsonDump(sess[s].data)[sess[s].pos + 1]
       IN  fs' = [fs EXCEPT !.inodes[h].content =
                                WriteAt(fs.inodes[h].content, sess[s].pos, tok)]
    /\ sess' = [sess EXCEPT ![s].pos = sess[s].pos + 1]
    /\ last_write' = [last_write EXCEPT !.by = s, !.data = sess[s].data]
    /\ UNCHANGED <<memo, oneVars>>

\* lines 123-127: json.dump raises before the document is complete; the
\* with block closes the file, the except clause swallows the exception and
\* the list is returned
TwoDumpFail(s) ==
    /\ sess[s].pc = "dump"
    /\ sess[s].pos < Len(JsonDump(sess[s].data))
    /\ LET after == [sess EXCEPT ![s].pc = "done", ![s].handle = 0,
                                 ![s].ret = sess[s].data]
       IN  /\ sess' = after
           /\ fs' = Collected(fs, after)
    /\ last_write' = [last_write EXCEPT !.failed = TRUE]
    /\ UNCHANGED <<memo, oneVars>>

\* lines 123-127: the with block closes the file, the list is returned
TwoClose(s) ==
    /\ sess[s].pc = "dump"
    /\ sess[s].pos = Len(JsonDump(sess[s].data))
    /\ LET after == [sess EXCEPT ![s].pc = "done", ![s].handle = 0,
                                 ![s].ret = sess[s].data]
       IN  /\ sess' = after
           /\ fs' = Collected(fs, after)
    /\ UNCHANGED <<last_write, memo, oneVars>>

\* the caller goes on, or the exception ends the session's run
TwoEnd(s) ==
    /\ sess[s].pc \in {"done", "raised"}
    /\ sess' = [sess EXCEPT ![s] = IdleSession]
    /\ UNCHANGED <<fs, last_write, memo, oneVars>>

NextTwo ==
    \/ \E key \in MemoKeys : Expire(key)
    \/ \E s \in Sessions :
        \/ \E pressed \in BOOLEAN : TwoStart(s, pressed)
        \/ TwoRefreshExists(s)
        \/ TwoRefreshRemove(s)
        \/ TwoClear(s)
        \/ TwoExists(s)
        \/ TwoOpenRead(s)
        \/ TwoLoad(s)
        \/ TwoExceptRemove(s)
        \/ TwoCount(s)
        \/ \E data \in FetchedLists : TwoFetch(s, data)
        \/ TwoOpenFail(s)
        \/ TwoOpenWrite(s)
        \/ TwoDump(s)
        \/ TwoDumpFail(s)
        \/ TwoClose(s)
        \/ TwoEnd(s)

SpecTwo == Init /\ [][NextTwo]_vars

(***************************************************************************)
(* Reading the request log                                                 *)
(***************************************************************************)
\* the requests issued for page p (0-based), and those answered with 200
Reqs(p) == {i \in DOMAIN requests : requests[i].start = p * rows_per_page}
OkReqs(p) == {i \in Reqs(p) : requests[i].ok}

\* page k used up its three attempts without a success
FailedAll(k) == Cardinality(Reqs(k)) = 3 /\ OkReqs(k) = {}

\* the results the upstream served for page p
ServedPage(p) == requests[CHOOSE i \in OkReqs(p) : TRUE].results

\* the served results of pages 0..n-1, in page order
RECURSIVE ConcatPages(_)
ConcatPages(n) ==
    IF n <= 0 THEN <<>> ELSE ConcatPages(n - 1) \o ServedPage(n - 1)

RECURSIVE SumPageLens(_)
SumPageLens(n) ==
    IF n <= 0 THEN 0 ELSE SumPageLens(n - 1) + Len(ServedPage(n - 1))

CeilDiv(a, b) == IF a % b = 0 THEN a \div b ELSE a \div b + 1

\* ceil(min(limit, total) / S) for the running call
ExpectedPages == CeilDiv(Min(limit, total_count), rows_per_page)

\* the fetcher is at its return statement (line 102)
FetcherReturns == pc = "write"
FullSuccess == FetcherReturns /\ report = NoReport

(***************************************************************************)
(* C1: if page k fails all 3 attempts, the fetcher returns exactly the     *)
(* concatenation, in order, of the results of pages 0..k-1, reports page   *)
(* k+1 with attempt count 3, and requests no page after k.                 *)
(***************************************************************************)
C1_FailedPageAborts ==
    FetcherReturns =>
        \A k \in 0..Len(requests) :
            FailedAll(k) =>
                /\ \A p \in 0..(k - 1) : Cardinality(OkReqs(p)) = 1
                /\ all_results = ConcatPages(k)
                /\ report = [page |-> k + 1, attempts |-> 3]
                /\ \A i \in DOMAIN requests :
                       requests[i].start <= k * rows_per_page

\* page 0 was served with two records, page 1 failed three times
C1_Witness ==
    /\ FetcherReturns
    /\ FailedAll(1)
    /\ Len(all_results) = 2

(***************************************************************************)
(* C2 as stated: on full success the number of page-search requests,       *)
(* counting every attempt, equals ceil(min(limit, total) / S).             *)
(***************************************************************************)
C2_Original == FullSuccess => Len(requests) = ExpectedPages

(***************************************************************************)
(* C2 amended: on full success exactly ceil(min(limit, total) / S)         *)
(* page-search requests succeeded, one per page; counting every attempt    *)
(* the number of requests is that plus the number of failed attempts, at   *)
(* most 3 per page, and equals it exactly when no attempt failed.          *)
(***************************************************************************)
C2_Amended ==
    FullSuccess =>
        LET ok == {i \in DOMAIN requests : requests[i].ok} IN
        /\ Cardinality(ok) = ExpectedPages
        /\ \A p \in 0..(ExpectedPages - 1) :
               /\ Cardinality(OkReqs(p)) = 1
               /\ Cardinality(Reqs(p)) <= 3
        /\ Len(requests) = ExpectedPages + Cardinality(DOMAIN requests \ ok)
        /\ Len(requests) <= 3 * ExpectedPages

\* two pages fetched in full, with a retried attempt on the way
C2_Witness ==
    /\ FullSuccess
    /\ ExpectedPages = 2
    /\ Len(requests) > 2

(***************************************************************************)
(* C3: on full success the returned list is the concatenation of the       *)
(* pages' results in page order, within-page order kept, each page         *)
(* contributing once; its length is the sum of the pages' item counts.     *)
(***************************************************************************)
C3_FullSuccessConcat ==
    FullSuccess =>
        /\ \A p \in 0..(ExpectedPages - 1) : Cardinality(OkReqs(p)) = 1
        /\ all_results = ConcatPages(ExpectedPages)
        /\ Len(all_results) = SumPageLens(ExpectedPages)

\* two pages of two records each, the second after a failed attempt, with
\* the two pages differing
C3_Witness ==
    /\ FullSuccess
    /\ ExpectedPages = 2
    /\ Len(requests) = 3
    /\ Len(all_results) = 4
    /\ all_results[1] # all_results[2]
    /\ SubSeq(all_results, 1, 2) # SubSeq(all_results, 3, 4)

(***************************************************************************)
(* Reading the state of a call of search_datasets_paginated                *)
(***************************************************************************)
\* the call has ended, by a return or by an exception that left it
CallReturned == source # "none"
CallRaised == pc = "crashed" /\ load_log.called /\ source = "none"
CallEnded == CallReturned \/ CallRaised

\* the call is between the cache read and the end of the fetch
InFetch == pc \in {"count", "attempt", "in_flight", "page_end", "write"}

\* at entry the file held a complete json.dump, nobody truncated it since
IntactAtEntry == load_log.before \in {"full", "partial"}
\* at entry the file existed and json.load could not parse it
UnreadableAtEntry == load_log.before \in {"corrupt", "torn"}

(***************************************************************************)
(* C4: the cache file is created only by a paginated fetch that completed  *)
(* every page: an intact cache file written by search_datasets_paginated   *)
(* never holds the result of a fetch that aborted on a failed page.        *)
(***************************************************************************)
C4_CacheOnlyFromFullFetch ==
    (cache_file.exists /\ cache_state \notin {"corrupt", "torn"}) =>
        cache_state = "full"

(***************************************************************************)
(* C5: once a list L has been written to the cache, a call with the        *)
(* refresh flag unset and the file uncorrupted returns a list equal to L   *)
(* without invoking the fetcher or any upstream call, and leaves the file  *)
(* as it was, so that repeating the load returns L again.                  *)
(***************************************************************************)
C5_CacheRoundTrip ==
    (load_log.called /\ ~load_log.refresh /\ IntactAtEntry) =>
        /\ CallReturned
        /\ source = "cache"
        /\ dataset_data = last_written
        /\ ~fetch_started
        /\ http_calls = 0
        /\ cache_file = File(JsonDump(last_written))

\* a list of two different records read back from the cache
C5_Witness ==
    /\ CallReturned
    /\ ~load_log.refresh /\ IntactAtEntry
    /\ source = "cache"
    /\ Len(dataset_data) = 2
    /\ dataset_data[1] # dataset_data[2]

(***************************************************************************)
(* C6: if the cache file exists but cannot be deserialized, the next call  *)
(* deletes it, performs a fresh paginated fetch and returns its result;    *)
(* no error reaches the caller.                                            *)
(***************************************************************************)
C6_CorruptCacheRecovered ==
    (load_log.called /\ ~load_log.refresh /\ UnreadableAtEntry) =>
        /\ fetch_started
        /\ InFetch => ~cache_file.exists
        /\ CallEnded =>
              /\ CallReturned
              /\ source = "fetch"
              /\ dataset_data = all_results

(***************************************************************************)
(* C7 as stated: a call with the refresh flag set clears the flag,         *)
(* deletes the cache file, clears every memoized entry and performs a      *)
(* fresh fetch even if the file was valid; the following load, with no new *)
(* refresh request, does not refetch but reads the cache.                  *)
(***************************************************************************)
RefreshBranchDone ==
    (load_log.called /\ load_log.refresh) =>
        /\ ~refresh_cache
        /\ fetch_started
        /\ pc = "count" => (memo = ClearedMemo /\ ~cache_file.exists)

\* the previous call of the session was a refresh and returned, this one
\* is not a refresh, and the file was not truncated in between
FollowsRefresh ==
    /\ CallReturned
    /\ ~load_log.refresh
    /\ load_log.before # "corrupt"
    /\ prev_call.called /\ prev_call.refresh /\ prev_call.returned

ReadsCache == source = "cache" /\ ~fetch_started /\ http_calls = 0

C7_Original ==
    /\ RefreshBranchDone
    /\ FollowsRefresh => ReadsCache

(***************************************************************************)
(* C7 amended: the same, the following load reading the cache provided     *)
(* the cache write of the refreshing call succeeded (that write is best    *)
(* effort, lines 121-125; when it failed the following load fetches        *)
(* again).                                                                 *)
(***************************************************************************)
C7_Amended ==
    /\ RefreshBranchDone
    /\ (FollowsRefresh /\ prev_call.wrote) => ReadsCache
    /\ (FollowsRefresh /\ ~prev_call.wrote) => (source = "fetch" /\ fetch_started)

\* the load after a refresh that replaced a valid cache reads what the
\* refresh wrote
C7_Witness ==
    /\ FollowsRefresh /\ prev_call.wrote
    /\ ReadsCache
    /\ dataset_data # <<>>

(***************************************************************************)
(* Reading the state of a call of get_all_org_details_parallel             *)
(***************************************************************************)
Submitted == DOMAIN futures
OrgOutput == {org_details[i] : i \in DOMAIN org_details}

\* the records whose name is oid
NamedAs(oid) ==
    {i \in DOMAIN org_details :
        HasName(org_details[i]) /\ org_details[i].name = oid}

\* what the outcomes of the detail calls determine, whatever the order in
\* which the threads finished: the records the calls returned, and a stub
\* for every identifier no returned record is named after
ExpectedOutput ==
    {futures[i].result : i \in {x \in Submitted : Truthy(futures[x].result)}}
    \cup {Stub(org_ids[i]) : i \in {x \in Submitted :
                     \A y \in Submitted :
                        ~(/\ Truthy(futures[y].result)
                          /\ HasName(futures[y].result)
                          /\ futures[y].result.name = org_ids[x])}}

(***************************************************************************)
(* C8: for every list O of organization identifiers and every outcome of   *)
(* the detail calls the output is in 1:1 correspondence with O: every id   *)
(* of O is the name of exactly one output record, a real detail record or  *)
(* the stub, and no output record has a name outside O or no name.         *)
(***************************************************************************)
C8_OneToOne ==
    org_pc = "returned" =>
        /\ \A i \in DOMAIN org_ids : Cardinality(NamedAs(org_ids[i])) = 1
        /\ \A i \in DOMAIN org_details :
              /\ HasName(org_details[i])
              /\ org_details[i].name \in {org_ids[j] : j \in DOMAIN org_ids}
        /\ Len(org_details) = Len(org_ids)

(***************************************************************************)
(* C9: whichever workers fail and in whatever order the pool completes,    *)
(* the batch is not aborted: the caller returns only after every submitted *)
(* worker has completed, every record a worker returned is in the output,  *)
(* every failing identifier gets its stub, and the output as a set of      *)
(* records is the same for every completion order.                         *)
(***************************************************************************)
C9_IsolatedJoinAll ==
    /\ Submitted # {} => org_pc # "crashed"
    /\ org_pc \in {"fallback", "returned"} =>
          \A i \in Submitted : futures[i].state = "done" /\ futures[i].collected
    /\ org_pc = "returned" =>
          /\ raised = NoException
          /\ Len(futures) = Len(org_ids)
          /\ \A i \in Submitted :
                IF ~Truthy(futures[i].result)
                THEN Stub(org_ids[i]) \in OrgOutput
                ELSE futures[i].result \in OrgOutput
          /\ OrgOutput = ExpectedOutput
          /\ Len(org_details) = Cardinality(ExpectedOutput)

\* three organizations, the first one's call failed, and the record of the
\* third was collected before that of the second
C9_Witness ==
    /\ org_pc = "returned"
    /\ Len(org_ids) = 3
    /\ futures[1].result = None
    /\ org_details[1] = OrgRecord(org_ids[3])
    /\ org_details[2] = OrgRecord(org_ids[2])
    /\ org_details[3] = Stub(org_ids[1])

(***************************************************************************)
(* C10: every API wrapper returns the parsed result on status 200 and its  *)
(* neutral value on any other status and on a transport-level failure      *)
(* (timeout, connection error, malformed JSON); no call ends in a raised   *)
(* error.                                                                  *)
(***************************************************************************)
C10_NeverRaises ==
    (api_ret.op # "none" /\ ~api_ret.cached) =>
        /\ ~api_ret.ret.raised
        /\ api_ret.ret.value =
              IF api_ret.resp.kind = "ok" THEN api_ret.resp.result
                                          ELSE Neutral(api_ret.op)

(***************************************************************************)
(* Reading the state of a direct call of the fetcher                       *)
(***************************************************************************)
\* _search_datasets_paginated_reliable(limit) has returned dataset_data
FetcherReturned == pc = "fetched"

\* the successful requests among the first n of the log
OkBefore(n) == {j \in 1..n : requests[j].ok}

\* the pages the loop of line 75 has entered
PagesEntered ==
    IF pc \in {"attempt", "in_flight", "page_end"} THEN page + 1
    ELSE IF pc \in {"write", "fetched"}
    THEN (IF report = NoReport THEN total_pages ELSE report.page)
    ELSE 0

(***************************************************************************)
(* C16: for every limit >= 0, every total count and every page content,    *)
(* the list returned by _search_datasets_paginated_reliable(limit) has at  *)
(* most `limit` elements.                                                  *)
(***************************************************************************)
C16_AtMostLimit == FetcherReturned => Len(dataset_data) <= limit

(***************************************************************************)
(* C17: pages are fetched strictly sequentially: at most one page-search   *)
(* request is outstanding at any time, the request for page p uses start   *)
(* offset 1000 * p, the first request for page p+1 is issued only after an *)
(* attempt at page p has succeeded, and the progress report of page p,     *)
(* fraction (p+1)/total_pages, is emitted after page p's attempts and      *)
(* before any request for page p+1.                                        *)
(***************************************************************************)
C17_Sequential ==
    /\ Cardinality(in_flight) <= 1
    /\ in_flight # {} => (pc = "in_flight" /\ in_flight = {1000 * page})
    \* a request is for the page after the ones already fetched
    /\ \A i \in DOMAIN requests :
           requests[i].start = 1000 * Cardinality(OkBefore(i - 1))
    /\ \A o \in in_flight : o = 1000 * Cardinality(OkBefore(Len(requests)))
    \* one progress report per page gone through, in page order
    /\ pc \in {"attempt", "in_flight", "page_end"} => Len(progress) = page
    /\ pc \in {"write", "fetched"} => Len(progress) = PagesEntered
    /\ \A k \in DOMAIN progress :
           LET p == k - 1 IN
           /\ progress[k].num = p + 1
           /\ progress[k].den = total_pages
           /\ Reqs(p) # {}
           /\ \A i \in DOMAIN requests :
                  IF i <= progress[k].at
                  THEN requests[i].start <= 1000 * p
                  ELSE requests[i].start >= 1000 * (p + 1)
           /\ \A o \in in_flight : o >= 1000 * (p + 1)

\* the request for the second page is outstanding; the first page needed
\* two attempts and its progress was reported
C17_Witness ==
    /\ pc = "in_flight"
    /\ in_flight = {1000}
    /\ Len(requests) = 2
    /\ progress = <<ProgressReport(0, 2, 2)>>

(***************************************************************************)
(* C19: the fetcher terminates for every sequence of upstream outcomes:    *)
(* each page the loop reaches is attempted at least once and at most 3     *)
(* times, a page is never requested again after one of its attempts        *)
(* succeeded, the number of page-search requests is at most                *)
(* 3 * total_pages, and with a total count of 0 no page request is issued  *)
(* and the empty list is returned.                                         *)
(***************************************************************************)
C19_Bounded ==
    /\ pc \in {"write", "fetched"} =>
           \A p \in 0..(PagesEntered - 1) :
               Cardinality(Reqs(p)) >= 1 /\ Cardinality(Reqs(p)) <= 3
    /\ \A p \in 0..(total_pages - 1) : Cardinality(Reqs(p)) <= 3
    /\ \A i, j \in DOMAIN requests :
           (i < j /\ requests[i].ok) => requests[j].start # requests[i].start
    /\ \A o \in in_flight : \A i \in DOMAIN requests :
           requests[i].ok => requests[i].start # o
    /\ Len(requests) + Cardinality(in_flight) <= 3 * total_pages
    /\ (pc \in {"write", "fetched"} /\ total_count = 0) =>
           (requests = <<>> /\ all_results = <<>>)
    /\ (FetcherReturned /\ total_count = 0) => dataset_data = <<>>

C19_Terminates ==
    /\ []C19_Bounded
    /\ (pc = "count") ~> (pc \in {"fetched", "crashed"})

\* every page of 0..total_pages-1 has a request in the log at the return
C19_EachPageAttempted ==
    pc \in {"write", "fetched"} =>
        \A p \in 0..(total_pages - 1) : Reqs(p) # {}

(***************************************************************************)
(* C19 as first stated: the fetcher terminates and each page of            *)
(* 0..total_pages-1 is attempted at least once and at most 3 times.  A     *)
(* page whose three attempts failed ends the loop (line 98), so the pages  *)
(* after it are never attempted.                                           *)
(***************************************************************************)
C19_Original == []C19_EachPageAttempted /\ C19_Terminates

\* two pages, three attempts each: the first page served by its third
\* attempt, the second page failed
C19_Witness ==
    /\ FetcherReturned
    /\ total_pages = 2
    /\ Len(requests) = 6
    /\ Cardinality(OkReqs(0)) = 1

(***************************************************************************)
(* C11: search_datasets_paginated returns a dataset list and never raises, *)
(* whatever the refresh flag, the state of the cache file and the outcomes *)
(* of the total-count query, of the page attempts and of the cache write;  *)
(* a failed cache write is swallowed and the fetched list still returned.  *)
(***************************************************************************)
C11_LoadNeverRaises ==
    /\ load_log.called => (pc # "crashed" /\ raised = NoException)
    /\ (CallReturned /\ source = "fetch") => dataset_data = all_results

(***************************************************************************)
(* C12: if the dataset list obtained from cache or fetch is empty the run  *)
(* stops: the condition is reported and no downstream step (projection,    *)
(* organization counts, view total, organization-detail fetch, rendering)  *)
(* is executed in that run.                                                *)
(***************************************************************************)
C12_EmptyStops ==
    /\ (source # "none" /\ dataset_data = <<>>) =>
           /\ pc \in {"returned", "stopped"}
           /\ steps = {}
           /\ df_datasets = <<>> /\ org_dataset_count = <<>> /\ all_orgs = <<>>
    /\ pc = "stopped" => (dataset_data = <<>> /\ stop_report)
    /\ stop_report => (pc = "stopped" /\ dataset_data = <<>>)
    /\ pc \in {"project", "render", "done"} => dataset_data # <<>>

\* the run stopped on an empty list read back from the cache
C12_Witness ==
    /\ pc = "stopped"
    /\ source = "cache"
    /\ stop_report

(***************************************************************************)
(* C13: given 3 dataset records, two of organization "Ministry A" and one  *)
(* with no organization field, the rows' organization is "Ministry A",     *)
(* "Ministry A", the placeholder, in that order, and the organization      *)
(* count table is exactly {"Ministry A": 2}.                               *)
(***************************************************************************)
C13_Scenario ==
    (pc = "projected" /\ dataset_data = <<RecA1, RecA2, RecNoOrg>>) =>
        /\ Column(df_datasets, "organization")
              = <<"Ministry A", "Ministry A", EmDash>>
        /\ org_dataset_count = [t \in {"Ministry A"} |-> 2]

(***************************************************************************)
(* C14: a partial fetch is distinguishable from a full one: in every run   *)
(* whose dataset list is the result of a fetch that aborted on a failed    *)
(* page, read back from the cache included, a failure report is shown, and *)
(* none is shown in a run of a fully successful fetch.                     *)
(***************************************************************************)
\* the list handed on comes from a fetch that aborted on a failed page
Degraded ==
    \/ source = "fetch" /\ total_pages > 0 /\ ~success
    \/ source = "cache" /\ load_log.before = "partial"

C14_PartialVisible == CallReturned => (Degraded <=> report # NoReport)

(***************************************************************************)
(* C15: in a script run that starts with the refresh flag set, every value *)
(* handed to the presentation layer (organization list, dataset identifier *)
(* list, total count, organization details, search results) comes from an  *)
(* upstream call made after the refresh was requested, never from a        *)
(* memoized entry created before it.                                       *)
(***************************************************************************)
C15_RefreshRefetchesAll ==
    (pc = "done" /\ load_log.refresh) =>
        /\ stale_used = {}
        /\ source = "fetch"

(***************************************************************************)
(* C20: after every call of search_datasets_paginated that returns and     *)
(* whose cache write, if any, did not fail, the cache file exists and      *)
(* holds the list just returned, be the fetch full, partial or empty; the  *)
(* next load without a manual refresh returns that same list with no       *)
(* upstream call. (last_written carries the list from the one call to the  *)
(* next: it is the list just returned, and it changes only inside a load   *)
(* that fetches.)                                                          *)
(***************************************************************************)
\* the call returned and no cache write of it failed
ReturnedKept == CallReturned /\ (source = "cache" \/ load_log.wrote)

\* this load has no refresh and follows a call of that kind, the file not
\* having been truncated in between
LaterLoad ==
    /\ load_log.called /\ ~load_log.refresh
    /\ load_log.before # "corrupt"
    /\ prev_call.returned /\ prev_call.kept

C20_AtReturn ==
    /\ ReturnedKept =>
           /\ cache_file.exists
           /\ JsonLoad(cache_file.content).ok
           /\ JsonLoad(cache_file.content).value = dataset_data
           /\ last_written = dataset_data
    /\ LaterLoad =>
           /\ CallReturned
           /\ ReadsCache
           /\ dataset_data = last_written

C20_OnlyFetchRewrites ==
    last_written' # last_written =>
        \/ pc = "load" /\ pc' = "count"
        \/ pc = "write"

C20_CacheEqualsReturned ==
    /\ []C20_AtReturn
    /\ [][C20_OnlyFetchRewrites]_vars

\* the load after a partial fetch returns the partial list from the cache
C20_Witness ==
    /\ LaterLoad
    /\ load_log.before = "partial"
    /\ prev_call.wrote
    /\ CallReturned
    /\ dataset_data = last_written
    /\ Len(dataset_data) = 2

(***************************************************************************)
(* C18: with two sessions running search_datasets_paginated concurrently   *)
(* on the same cache file the last writer wins: in every interleaving of   *)
(* their exists-check, read, delete, open-for-write and write steps, once  *)
(* both sessions have finished the file holds exactly the complete list    *)
(* written by the session whose write happened last, and neither session's *)
(* load raises. The exception looked for is the one the other session's    *)
(* file steps cause (FileNotFoundError); an exception of the count request *)
(* is C11's case and is not counted here. The claim is read for the runs   *)
(* in which every open and write of the cache succeeded, those being the   *)
(* steps it names.                                                         *)
(***************************************************************************)
BothFinished == \A s \in Sessions : sess[s].pc \in {"idle", "done"}

C18_LastWriterWins ==
    ~last_write.failed =>
        /\ \A s \in Sessions : sess[s].exc # "FileNotFoundError"
        /\ (BothFinished /\ last_write.by # 0) =>
               /\ fs.name # 0
               /\ fs.inodes[fs.name].content = JsonDump(last_write.data)

====
